---- MODULE Spec2Model ----
(***************************************************************************)
(* Model of the packet analyser: the capture loop of main.rs, the Printer  *)
(* traversal of visitor.rs, the Ethernet / IPv4 / TCP views and the TCP    *)
(* option cursor.  Buffers are sequences of bytes (0..255); Rust's 0-based *)
(* offset i is element i+1 of the sequence.                                *)
(***************************************************************************)
EXTENDS Integers, Sequences, FiniteSets, TLC

VARIABLES pc, frame, eth, ip, tcp, options, payload, result,
          optData, index, lastCall, yielded, calls, pureIn, pureOut

vars == <<pc, frame, eth, ip, tcp, options, payload, result,
          optData, index, lastCall, yielded, calls, pureIn, pureOut>>

(***************************************************************************)
(* Bounds of the explored inputs.                                          *)
(***************************************************************************)
MaxFrameLen == 60
MaxTailLen == 3
MaxLongLen == 9
MaxCalls == 4
MaxDataLen == 10
MaxBitStart == 9
MaxBitWidth == 65
MaxArrayLen == 6

(***************************************************************************)
(* Program constants.                                                      *)
(***************************************************************************)
ADDRESS_SIZE == 6
ETHER_TYPE_SIZE == 2
CRC_SIZE == 4
HEADER_SIZE == ADDRESS_SIZE * 2 + ETHER_TYPE_SIZE
MIN_TOTAL_SIZE == 6 + 6 + 2 + 4
PAYLOAD_OFFSET == 14

(***************************************************************************)
(* Results.  Every error of the program is an io::Error of kind Other that *)
(* carries a formatted message; a and b are the numbers formatted into it. *)
(* "Panic" is a Rust panic (the process aborts).                           *)
(***************************************************************************)
NoResult == [tag |-> "None", kind |-> "", msg |-> "", a |-> 0, b |-> 0]
OkUnit == [tag |-> "Ok", kind |-> "", msg |-> "", a |-> 0, b |-> 0]
Panic == [tag |-> "Panic", kind |-> "", msg |-> "", a |-> 0, b |-> 0]
Err(msg, a, b) == [tag |-> "Err", kind |-> "Other", msg |-> msg, a |-> a, b |-> b]

\* A slice &data[from..to]: panics when from > to or to > len.
Slice(data, from, to) ==
    IF from > to \/ to > Len(data)
    THEN [panic |-> TRUE, bytes |-> <<>>]
    ELSE [panic |-> FALSE, bytes |-> SubSeq(data, from + 1, to)]

\* get_unchecked(i): the byte at offset i.  A read at i >= len is outside
\* the buffer; the cursor records every offset it reads (see reads).
Get(data, i) == IF i < Len(data) THEN data[i + 1] ELSE 0

be2leu8(data, i) == Get(data, i)
be2leu16(data, i) == Get(data, i + 1) * 256 + Get(data, i)
be2leu32(data, i) ==
    Get(data, i + 3) * 16777216 + Get(data, i + 2) * 65536
        + Get(data, i + 1) * 256 + Get(data, i)

(***************************************************************************)
(* tcp.rs: the option cursor.                                              *)
(***************************************************************************)
NoneOpt == [kind |-> "None", a |-> 0, b |-> 0]
Some(kind, a, b) == [kind |-> kind, a |-> a, b |-> b]

NextRet(ret, idx, reads) == [ret |-> ret, index |-> idx, reads |-> reads]

\* TwoFields without the bounds check before the second field.
TwoFields_NoSecondCheck(data, i1, kind) ==
    IF Len(data) < i1 + 4 THEN NextRet(NoneOpt, i1, {})
    ELSE NextRet(Some(kind, be2leu32(data, i1), be2leu32(data, i1 + 4)),
                 i1 + 8, i1..(i1 + 7))

\* The two 4-byte fields of Sack and Timestamp.
TwoFields(data, i1, kind) ==
    IF Len(data) < i1 + 4 THEN NextRet(NoneOpt, i1, {})
    ELSE IF Len(data) < (i1 + 4) + 4 THEN NextRet(NoneOpt, i1 + 4, i1..(i1 + 3))
    ELSE NextRet(Some(kind, be2leu32(data, i1), be2leu32(data, i1 + 4)),
                 i1 + 8, i1..(i1 + 7))

\* OptionIter_next without the bounds check of the Window Scale option.
OptionIter_next_NoScaleCheck(data, idx) ==
    IF idx >= Len(data) THEN NextRet(NoneOpt, idx, {})
    ELSE LET kind == data[idx + 1]
             i1 == idx + 1
         IN CASE kind = 0 -> NextRet(NoneOpt, i1, {})
              [] kind = 1 -> NextRet(Some("NoOperation", 0, 0), i1, {})
              [] kind = 2 ->
                    IF Len(data) < i1 + 2 THEN NextRet(NoneOpt, i1, {})
                    ELSE NextRet(Some("MaximumSegmentSize", be2leu16(data, i1), 0),
                                 i1 + 2, {i1, i1 + 1})
              [] kind = 3 -> NextRet(Some("WindowScale", be2leu8(data, i1), 0),
                                     i1 + 1, {i1})
              [] kind = 4 -> NextRet(Some("SackPermitted", 0, 0), i1, {})
              [] kind = 5 -> TwoFields(data, i1, "Sack")
              [] kind \in 6..7 -> NextRet(NoneOpt, i1, {})
              [] kind = 8 -> TwoFields(data, i1, "Timestamp")
              [] OTHER -> NextRet(NoneOpt, i1, {})

\* OptionIter::next on a cursor (data, idx): the returned option (or
\* NoneOpt), the new index and the offsets read without a bounds check.
OptionIter_next(data, idx) ==
    IF idx >= Len(data) THEN NextRet(NoneOpt, idx, {})
    ELSE LET kind == data[idx + 1]
             i1 == idx + 1
         IN CASE kind = 0 -> NextRet(NoneOpt, i1, {})
              [] kind = 1 -> NextRet(Some("NoOperation", 0, 0), i1, {})
              [] kind = 2 ->
                    IF Len(data) < i1 + 2 THEN NextRet(NoneOpt, i1, {})
                    ELSE NextRet(Some("MaximumSegmentSize", be2leu16(data, i1), 0),
                                 i1 + 2, {i1, i1 + 1})
              [] kind = 3 ->
                    IF Len(data) < i1 + 1 THEN NextRet(NoneOpt, i1, {})
                    ELSE NextRet(Some("WindowScale", be2leu8(data, i1), 0),
                                 i1 + 1, {i1})
              [] kind = 4 -> NextRet(Some("SackPermitted", 0, 0), i1, {})
              [] kind = 5 -> TwoFields(data, i1, "Sack")
              [] kind \in 6..7 -> NextRet(NoneOpt, i1, {})
              [] kind = 8 -> TwoFields(data, i1, "Timestamp")
              [] OTHER -> NextRet(NoneOpt, i1, {})

\* for (i, option) in packet.options().enumerate(): the options up to the
\* first None.
RECURSIVE CollectOptions(_, _)
CollectOptions(data, idx) ==
    LET r == OptionIter_next(data, idx)
    IN IF r.ret = NoneOpt THEN <<>>
       ELSE <<r.ret>> \o CollectOptions(data, r.index)

(***************************************************************************)
(* tcp.rs: the TCP view.                                                   *)
(***************************************************************************)
Tcp_data_offset(data) == be2leu8(data, 12) % 16
Tcp_header_size(data) == Tcp_data_offset(data) * 4
Tcp_raw_payload(data) == Slice(data, Tcp_header_size(data), Len(data))
Tcp_options(data) == Slice(data, 20, Len(data))

\* Tcp_from_bytes without the header-size check.
Tcp_from_bytes_NoHeaderCheck(data) ==
    IF Len(data) < 20
    THEN Err("Tcp data too small", 20, Len(data))
    ELSE OkUnit

Tcp_from_bytes(data) ==
    IF Len(data) < 20
    THEN Err("Tcp data too small", 20, Len(data))
    ELSE IF Tcp_header_size(data) > Len(data)
    THEN Err("Tcp header size too big", Len(data), Tcp_header_size(data))
    ELSE OkUnit

(***************************************************************************)
(* ipv4.rs: the IPv4 view.                                                 *)
(***************************************************************************)
IPv4_version_raw(data) == Get(data, 0) \div 16
IPv4_header_length(data) == Get(data, 0) % 16
IPv4_reserved1(data) == Get(data, 1) % 2

\* Protocol_from_value that takes 17 for TCP.
Protocol_from_value_UdpAsTcp(value) ==
    CASE value = 6 -> "TCP"
      [] value = 17 -> "TCP"
      [] OTHER -> "Unknown"

Protocol_from_value(value) ==
    CASE value = 6 -> "TCP"
      [] value = 17 -> "UDP"
      [] OTHER -> "Unknown"

IPv4_protocol(data) == Protocol_from_value(Get(data, 9))

IPv4_raw_payload(data) ==
    IF Len(data) < 4 THEN [panic |-> TRUE, bytes |-> <<>>]
    ELSE Slice(data, 14, Len(data) - 4)

\* IPv4_from_bytes that checks the header length before the version.
IPv4_from_bytes_LengthFirst(data) ==
    IF Len(data) < 20
    THEN Err("Ipv4 data too small", 20, Len(data))
    ELSE IF IPv4_header_length(data) < 5 THEN Err("Header length too small", 0, 0)
    ELSE IF IPv4_header_length(data) > 20 THEN Err("Header length too big", 0, 0)
    ELSE IF IPv4_version_raw(data) # 4 THEN Err("Version must be 4", 0, 0)
    ELSE IF IPv4_reserved1(data) # 0 THEN Err("Reserved flag is not 0", 0, 0)
    ELSE OkUnit

IPv4_from_bytes(data) ==
    IF Len(data) < 20
    THEN Err("Ipv4 data too small", 20, Len(data))
    ELSE IF IPv4_version_raw(data) # 4 THEN Err("Version must be 4", 0, 0)
    ELSE IF IPv4_header_length(data) < 5 THEN Err("Header length too small", 0, 0)
    ELSE IF IPv4_header_length(data) > 20 THEN Err("Header length too big", 0, 0)
    ELSE IF IPv4_reserved1(data) # 0 THEN Err("Reserved flag is not 0", 0, 0)
    ELSE OkUnit

\* IPv4::payload: the result and, when it is Ok, the bytes of the TCP view.
IPv4_payload(data) ==
    LET proto == IPv4_protocol(data)
    IN IF proto = "TCP"
       THEN LET raw == IPv4_raw_payload(data)
            IN IF raw.panic THEN [res |-> Panic, view |-> <<>>]
               ELSE [res |-> Tcp_from_bytes(raw.bytes), view |-> raw.bytes]
       ELSE IF proto = "UDP"
       THEN [res |-> Err("UDP not implemented", 0, 0), view |-> <<>>]
       ELSE [res |-> Err("Unknown protocol", 0, 0), view |-> <<>>]

(***************************************************************************)
(* ethernet.rs: the Ethernet view.                                         *)
(***************************************************************************)
\* EtherType_from_code that matches the codes as written on the wire.
EtherType_from_code_WireOrder(code) ==
    CASE code = 2048 -> "IPv4"
      [] code = 2054 -> "ARP"
      [] code = 32821 -> "RARP"
      [] code = 33026 -> "SLPP"
      [] code = 34525 -> "IPv6"
      [] OTHER -> "Unknown"

EtherType_from_code(code) ==
    CASE code = 8 -> "IPv4"
      [] code = 1544 -> "ARP"
      [] code = 13696 -> "RARP"
      [] code = 641 -> "SLPP"
      [] code = 56710 -> "IPv6"
      [] OTHER -> "Unknown"

\* read_u16::<LittleEndian> of the bytes 12..14.
Ethernet_ether_type(data) ==
    EtherType_from_code(Get(data, 13) * 256 + Get(data, 12))

Ethernet_raw_payload(data) ==
    IF Len(data) < CRC_SIZE THEN [panic |-> TRUE, bytes |-> <<>>]
    ELSE Slice(data, PAYLOAD_OFFSET, Len(data) - CRC_SIZE)

Ethernet_crc(data) ==
    IF Len(data) < CRC_SIZE THEN [panic |-> TRUE, bytes |-> <<>>]
    ELSE Slice(data, Len(data) - CRC_SIZE, Len(data))

\* from_bytes compares against the module constant HEADER_SIZE.
Ethernet_from_bytes(data) ==
    IF Len(data) < HEADER_SIZE
    THEN Err("Ethernet data too small", HEADER_SIZE, Len(data))
    ELSE OkUnit

\* Ethernet::payload: the result, the variant of an Ok payload and, for the
\* IPv4 variant, the bytes of the IPv4 view.
Ethernet_payload(data) ==
    IF Ethernet_ether_type(data) = "IPv4"
    THEN LET raw == Ethernet_raw_payload(data)
         IN IF raw.panic THEN [res |-> Panic, variant |-> "", view |-> <<>>]
            ELSE LET r == IPv4_from_bytes(raw.bytes)
                 IN IF r.tag = "Ok"
                    THEN [res |-> OkUnit, variant |-> "IPv4", view |-> raw.bytes]
                    ELSE [res |-> r, variant |-> "", view |-> <<>>]
    ELSE [res |-> OkUnit, variant |-> "Invalid", view |-> <<>>]

(***************************************************************************)
(* Captured frames: the bytes that decide the traversal are drawn from     *)
(* small sets, every other byte is 0.                                      *)
(***************************************************************************)
EtherTypeBytes == {<<8, 0>>, <<0, 8>>, <<8, 6>>, <<0, 0>>}
IpByte0 == {69, 68, 85, 84, 79}
IpByte1 == {0, 1}
ProtocolBytes == {6, 17, 0}
DataOffsetBytes == {0, 5, 6, 15}
FrameTails == {<<0, 0, 0, 0>>, <<1, 1, 0, 1>>, <<2, 4, 5, 180>>}

FrameByte(i, et, b0, b1, proto, doff, tail) ==
    CASE i = 12 -> et[1]
      [] i = 13 -> et[2]
      [] i = 14 -> b0
      [] i = 15 -> b1
      [] i = 23 -> proto
      [] i = 40 -> doff
      [] i >= 48 /\ i < 48 + Len(tail) -> tail[i - 47]
      [] OTHER -> 0

Frame(len, et, b0, b1, proto, doff, tail) ==
    [i \in 1..len |-> FrameByte(i - 1, et, b0, b1, proto, doff, tail)]

Frames ==
    { Frame(len, et, b0, b1, proto, doff, tail) :
        len \in 0..MaxFrameLen, et \in EtherTypeBytes, b0 \in IpByte0,
        b1 \in IpByte1, proto \in ProtocolBytes, doff \in DataOffsetBytes,
        tail \in FrameTails }

(***************************************************************************)
(* The capture loop and the Printer traversal.                             *)
(***************************************************************************)
\* The argument and the value of the primitive applied last (none yet).
NoInput == [fn |-> "", data |-> <<>>, start |-> 0, end |-> 0]
NoOutput == [tag |-> "None", val |-> 0, seq |-> <<>>]

NoCall == [tag |-> -1, start |-> 0, ret |-> NoneOpt, reads |-> {}]

Idle ==
    /\ frame = <<>> /\ eth = <<>> /\ ip = <<>> /\ tcp = <<>>
    /\ options = <<>> /\ payload = <<>> /\ result = NoResult
    /\ optData = <<>> /\ index = 0 /\ lastCall = NoCall
    /\ yielded = <<>> /\ calls = 0
    /\ pureIn = NoInput /\ pureOut = NoOutput

Init == pc = "capture" /\ Idle

cursorVars == <<optData, index, lastCall, yielded, calls>>
pureVars == <<pureIn, pureOut>>

\* main: cap.next_packet() hands the next captured frame to the printer.
NextPacket ==
    /\ pc = "capture"
    /\ \E f \in Frames : frame' = f
    /\ pc' = "visit_packet"
    /\ UNCHANGED <<eth, ip, tcp, options, payload, result, cursorVars>>
    /\ UNCHANGED pureVars

\* Printer::visit_packet, which calls visit_packet_payload.
VisitPacket ==
    /\ pc = "visit_packet"
    /\ LET r == Ethernet_from_bytes(frame)
       IN IF r.tag = "Ok"
          THEN /\ eth' = frame
               /\ pc' = "visit_ethernet"
               /\ UNCHANGED result
          ELSE /\ result' = r
               /\ pc' = "report"
               /\ UNCHANGED eth
    /\ UNCHANGED <<frame, ip, tcp, options, payload, cursorVars>>
    /\ UNCHANGED pureVars

\* Printer::visit_ethernet, which prints the header (raw_payload, source,
\* destination, ether_type, crc) and calls visit_ethernet_payload.
VisitEthernet ==
    /\ pc = "visit_ethernet"
    /\ IF Ethernet_raw_payload(eth).panic \/ Ethernet_crc(eth).panic
       THEN /\ result' = Panic
            /\ pc' = "aborted"
            /\ UNCHANGED ip
       ELSE LET p == Ethernet_payload(eth)
            IN IF p.res.tag = "Panic"
               THEN /\ result' = Panic
                    /\ pc' = "aborted"
                    /\ UNCHANGED ip
               ELSE IF p.res.tag = "Err"
               THEN /\ result' = p.res
                    /\ pc' = "report"
                    /\ UNCHANGED ip
               ELSE IF p.variant = "IPv4"
               THEN /\ ip' = p.view
                    /\ pc' = "visit_ipv4"
                    /\ UNCHANGED result
               ELSE /\ result' = Err("Ethernet payload is not implemented", 0, 0)
                    /\ pc' = "report"
                    /\ UNCHANGED ip
    /\ UNCHANGED <<frame, eth, tcp, options, payload, cursorVars>>
    /\ UNCHANGED pureVars

\* Printer::visit_ipv4, which prints the header and calls
\* visit_ipv4_payload.
VisitIpv4 ==
    /\ pc = "visit_ipv4"
    /\ IF IPv4_raw_payload(ip).panic
       THEN /\ result' = Panic
            /\ pc' = "aborted"
            /\ UNCHANGED tcp
       ELSE LET p == IPv4_payload(ip)
            IN IF p.res.tag = "Panic"
               THEN /\ result' = Panic
                    /\ pc' = "aborted"
                    /\ UNCHANGED tcp
               ELSE IF p.res.tag = "Err"
               THEN /\ result' = p.res
                    /\ pc' = "report"
                    /\ UNCHANGED tcp
               ELSE /\ tcp' = p.view
                    /\ pc' = "visit_tcp"
                    /\ UNCHANGED result
    /\ UNCHANGED <<frame, eth, ip, options, payload, cursorVars>>
    /\ UNCHANGED pureVars

\* Printer::visit_tcp, which prints the header and every option and hands
\* raw_payload to visit_raw_payload.
VisitTcp ==
    /\ pc = "visit_tcp"
    /\ LET raw == Tcp_raw_payload(tcp)
           opts == Tcp_options(tcp)
       IN IF raw.panic \/ opts.panic
          THEN /\ result' = Panic
               /\ pc' = "aborted"
               /\ UNCHANGED <<options, payload>>
          ELSE /\ options' = CollectOptions(opts.bytes, 0)
               /\ payload' = raw.bytes
               /\ pc' = "visit_raw_payload"
               /\ UNCHANGED result
    /\ UNCHANGED <<frame, eth, ip, tcp, cursorVars>>
    /\ UNCHANGED pureVars

\* Printer::visit_raw_payload.
VisitRawPayload ==
    /\ pc = "visit_raw_payload"
    /\ result' = OkUnit
    /\ pc' = "report"
    /\ UNCHANGED <<frame, eth, ip, tcp, options, payload, cursorVars>>
    /\ UNCHANGED pureVars

\* main: an error is printed and the loop takes the next frame.
Report ==
    /\ pc = "report"
    /\ pc' = "capture"
    /\ frame' = <<>> /\ eth' = <<>> /\ ip' = <<>> /\ tcp' = <<>>
    /\ options' = <<>> /\ payload' = <<>> /\ result' = NoResult
    /\ UNCHANGED cursorVars
    /\ UNCHANGED pureVars

Next ==
    \/ NextPacket
    \/ VisitPacket
    \/ VisitEthernet
    \/ VisitIpv4
    \/ VisitTcp
    \/ VisitRawPayload
    \/ Report

Spec == Init /\ [][Next]_vars

(***************************************************************************)
(* The option cursor driven call by call: a TCP segment is decoded, its    *)
(* options() cursor is taken and next() is called on it, also after it has *)
(* returned None.                                                          *)
(***************************************************************************)
OptBytes == {0, 1, 2, 3, 4, 5, 6, 8, 180}
OptDataOffsetBytes == {0, 5, 6, 7, 15, 86}

ShortTails == UNION { [1..n -> OptBytes] : n \in 0..MaxTailLen }
SampleTails == {<<2, 4, 5, 180>>, <<1, 1, 0, 1>>, <<3, 7, 4, 1>>}
LongTails ==
    { p \o <<t>> \o [i \in 1..n |-> i] :
        p \in {<<>>, <<1>>}, t \in {5, 8}, n \in 0..MaxLongLen }
Tails == ShortTails \cup SampleTails \cup LongTails

\* A segment: a 20-byte header whose byte 12 is doff, followed by tail.
TcpBuf(doff, tail) == [i \in 1..20 |-> IF i = 13 THEN doff ELSE 0] \o tail

InitOpt == pc = "segment" /\ Idle

\* Tcp::from_bytes followed by Tcp::options.
TcpNew ==
    /\ pc = "segment"
    /\ \E doff \in OptDataOffsetBytes, tail \in Tails :
         LET d == TcpBuf(doff, tail)
             r == Tcp_from_bytes(d)
         IN IF r.tag = "Ok"
            THEN /\ tcp' = d
                 /\ optData' = Tcp_options(d).bytes
                 /\ pc' = "cursor"
                 /\ UNCHANGED result
            ELSE /\ result' = r
                 /\ pc' = "rejected"
                 /\ UNCHANGED <<tcp, optData>>
    /\ index' = 0
    /\ UNCHANGED <<frame, eth, ip, options, payload, lastCall, yielded, calls>>
    /\ UNCHANGED pureVars

\* One call of OptionIter::next.
CursorNext ==
    /\ pc = "cursor"
    /\ calls < MaxCalls
    /\ LET r == OptionIter_next(optData, index)
       IN /\ index' = r.index
          /\ lastCall' = [tag |-> IF index < Len(optData)
                                  THEN optData[index + 1] ELSE -1,
                          start |-> index, ret |-> r.ret, reads |-> r.reads]
          /\ yielded' = IF r.ret = NoneOpt THEN yielded
                        ELSE Append(yielded, r.ret)
    /\ calls' = calls + 1
    /\ UNCHANGED <<pc, frame, eth, ip, tcp, options, payload, result, optData>>
    /\ UNCHANGED pureVars

NextOpt ==
    \/ TcpNew
    \/ CursorNext

SpecOpt == InitOpt /\ [][NextOpt]_vars

(***************************************************************************)
(* The default hooks of the Visitor trait, as a consumer that overrides    *)
(* none of them gets them.                                                 *)
(***************************************************************************)
\* visit_ethernet_payload that answers the Invalid marker with the default
\* value.
Visitor_invalid_payload_DefaultValue == OkUnit

\* visit_ethernet_payload on the Invalid marker.
Visitor_invalid_payload == Err("Ethernet payload is not implemented", 0, 0)

\* Visitor::visit_tcp: todo!("Not implemented") panics.
Visitor_visit_tcp == Panic

InitDefault == pc = "default_caller" /\ Idle

\* A consumer hands a captured frame to visit_packet.
DefaultNextPacket ==
    /\ pc = "default_caller"
    /\ \E f \in Frames : frame' = f
    /\ pc' = "default_visit_packet"
    /\ UNCHANGED <<eth, ip, tcp, options, payload, result, cursorVars, pureVars>>

\* Visitor::visit_packet, which calls visit_packet_payload.
DefaultVisitPacket ==
    /\ pc = "default_visit_packet"
    /\ LET r == Ethernet_from_bytes(frame)
       IN IF r.tag = "Ok"
          THEN /\ eth' = frame
               /\ pc' = "default_visit_ethernet"
               /\ UNCHANGED result
          ELSE /\ result' = r
               /\ pc' = "default_return"
               /\ UNCHANGED eth
    /\ UNCHANGED <<frame, ip, tcp, options, payload, cursorVars, pureVars>>

\* Visitor::visit_ethernet, which calls visit_ethernet_payload.
DefaultVisitEthernet ==
    /\ pc = "default_visit_ethernet"
    /\ LET p == Ethernet_payload(eth)
       IN IF p.res.tag = "Panic"
          THEN /\ result' = Panic
               /\ pc' = "aborted"
               /\ UNCHANGED ip
          ELSE IF p.res.tag = "Err"
          THEN /\ result' = p.res
               /\ pc' = "default_return"
               /\ UNCHANGED ip
          ELSE IF p.variant = "IPv4"
          THEN /\ ip' = p.view
               /\ pc' = "default_visit_ipv4"
               /\ UNCHANGED result
          ELSE /\ result' = Visitor_invalid_payload
               /\ pc' = "default_return"
               /\ UNCHANGED ip
    /\ UNCHANGED <<frame, eth, tcp, options, payload, cursorVars, pureVars>>

\* Visitor::visit_ipv4, which calls visit_ipv4_payload.
DefaultVisitIpv4 ==
    /\ pc = "default_visit_ipv4"
    /\ LET p == IPv4_payload(ip)
       IN IF p.res.tag = "Panic"
          THEN /\ result' = Panic
               /\ pc' = "aborted"
               /\ UNCHANGED tcp
          ELSE IF p.res.tag = "Err"
          THEN /\ result' = p.res
               /\ pc' = "default_return"
               /\ UNCHANGED tcp
          ELSE /\ tcp' = p.view
               /\ pc' = "default_visit_tcp"
               /\ UNCHANGED result
    /\ UNCHANGED <<frame, eth, ip, options, payload, cursorVars, pureVars>>

\* Visitor::visit_tcp.
DefaultVisitTcp ==
    /\ pc = "default_visit_tcp"
    /\ result' = Visitor_visit_tcp
    /\ pc' = IF Visitor_visit_tcp.tag = "Panic" THEN "aborted" ELSE "default_return"
    /\ UNCHANGED <<frame, eth, ip, tcp, options, payload, cursorVars, pureVars>>

\* visit_packet has returned; the consumer goes on with the next frame.
DefaultReturn ==
    /\ pc = "default_return"
    /\ pc' = "default_caller"
    /\ frame' = <<>> /\ eth' = <<>> /\ ip' = <<>> /\ tcp' = <<>>
    /\ result' = NoResult
    /\ UNCHANGED <<options, payload, cursorVars, pureVars>>

NextDefault ==
    \/ DefaultNextPacket
    \/ DefaultVisitPacket
    \/ DefaultVisitEthernet
    \/ DefaultVisitIpv4
    \/ DefaultVisitTcp
    \/ DefaultReturn

SpecDefault == InitDefault /\ [][NextDefault]_vars

(***************************************************************************)
(* The byte-order and bit-field primitives, applied to drawn arguments.    *)
(* A 64-bit value is the sequence of its 64 bits, least significant first. *)
(***************************************************************************)
Bit(b, k) == (b \div (2 ^ k)) % 2

\* The little-endian assembly of the n bytes at offset i (ipv4.rs u8, u16,
\* u32, u64), widened to usize.
ReadLE(data, i, n) ==
    [k \in 1..64 |->
        IF k - 1 < 8 * n
        THEN Bit(Get(data, i + ((k - 1) \div 8)), (k - 1) % 8)
        ELSE 0]

\* value >> s
Shr(bits, s) == [k \in 1..64 |-> IF k + s <= 64 THEN bits[k + s] ELSE 0]

\* value & (0xFFFF_FFFF_FFFF_FFFF >> s)
AndOnesShr(bits, s) == [k \in 1..64 |-> IF k <= 64 - s THEN bits[k] ELSE 0]

\* The number of bytes at() reads for a range of len bits (0: none, error).
ReadWidth(len) ==
    IF len <= 8 THEN 1
    ELSE IF len <= 16 THEN 2
    ELSE IF len <= 32 THEN 4
    ELSE IF len <= 64 THEN 8
    ELSE 0

\* BitArray::at(start..end) where every byte it reads is inside the slice.
BitArray_at(data, start, end) ==
    LET len == IF end >= start THEN end - start ELSE 0
        n == ReadWidth(len)
    IN IF n = 0
       THEN [tag |-> "Err", val |-> len, seq |-> <<>>]
       ELSE [tag |-> "Ok", val |-> 0,
             seq |-> AndOnesShr(Shr(ReadLE(data, start \div 8, n), start % 8),
                                8 - (end % 8))]

\* at() reads n bytes at start / 8 without a bounds check.
BitArray_at_reads_outside(data, start, end) ==
    LET len == IF end >= start THEN end - start ELSE 0
    IN ReadWidth(len) > 0 /\ (start \div 8) + ReadWidth(len) > Len(data)

\* std::mem::swap of the elements at offsets a and b.
Swap(bytes, a, b) ==
    [bytes EXCEPT ![a + 1] = bytes[b + 1], ![b + 1] = bytes[a + 1]]

\* for i in 0..middle { swap(first[i], second[middle-i-1]) }, where second
\* starts at offset middle of bytes.
RECURSIVE be_to_fe_loop(_, _, _)
be_to_fe_loop(bytes, i, middle) ==
    IF i >= middle THEN bytes
    ELSE be_to_fe_loop(Swap(bytes, i, middle + (middle - i - 1)), i + 1, middle)

be_to_fe(bytes) == be_to_fe_loop(bytes, 0, Len(bytes) \div 2)

\* a | b on 16-bit values.
BitOr16(a, b) ==
    LET v[k \in 0..16] ==
          IF k = 16 THEN 0
          ELSE (IF Bit(a, k) = 1 \/ Bit(b, k) = 1 THEN 2 ^ k ELSE 0) + v[k + 1]
    IN v[0]

\* (self.u8(7) as u16) | (self.u8(6) as u16 & 0b0001_1111)
IPv4_fragment_offset(data) == BitOr16(Get(data, 7), Get(data, 6) % 32)

BitDatas == { [i \in 1..n |-> v] : n \in 1..MaxDataLen, v \in {255, 165} }
ByteArrays == { [i \in 1..n |-> base + i] : n \in 0..MaxArrayLen, base \in {0, 100} }
FragBytes == {0, 1, 2, 31, 32, 170, 255}

\* A minimal valid IPv4 header whose bytes 6 and 7 are b6 and b7.
FragBuf(b6, b7) ==
    [i \in 1..20 |-> IF i = 1 THEN 69 ELSE IF i = 7 THEN b6
                     ELSE IF i = 8 THEN b7 ELSE 0]

InitPure == pc = "primitive" /\ Idle

tailVars == <<frame, eth, ip, tcp, options, payload, result, cursorVars>>

\* BitArray::new(data).at(start..end)
BitArrayAt ==
    /\ pc = "primitive"
    /\ \E data \in BitDatas, start \in 0..MaxBitStart, w \in 0..MaxBitWidth :
         /\ pureIn' = [fn |-> "at", data |-> data, start |-> start,
                       end |-> start + w]
         /\ IF BitArray_at_reads_outside(data, start, start + w)
            THEN \E any \in { [k \in 1..64 |-> 0], [k \in 1..64 |-> 1] } :
                    pureOut' = [tag |-> "Undefined", val |-> 0, seq |-> any]
            ELSE pureOut' = BitArray_at(data, start, start + w)
    /\ pc' = "returned"
    /\ UNCHANGED tailVars

\* be_to_fe(bytes)
BeToFe ==
    /\ pc = "primitive"
    /\ \E bytes \in ByteArrays :
         /\ pureIn' = [fn |-> "be_to_fe", data |-> bytes, start |-> 0, end |-> 0]
         /\ pureOut' = [tag |-> "Ok", val |-> 0, seq |-> be_to_fe(bytes)]
    /\ pc' = "returned"
    /\ UNCHANGED tailVars

\* IPv4::from_bytes(data)?.fragment_offset()
FragmentOffset ==
    /\ pc = "primitive"
    /\ \E b6 \in FragBytes, b7 \in FragBytes :
         /\ IPv4_from_bytes(FragBuf(b6, b7)).tag = "Ok"
         /\ pureIn' = [fn |-> "fragment_offset", data |-> FragBuf(b6, b7),
                       start |-> 0, end |-> 0]
         /\ pureOut' = [tag |-> "Ok", val |-> IPv4_fragment_offset(FragBuf(b6, b7)),
                        seq |-> <<>>]
    /\ pc' = "returned"
    /\ UNCHANGED tailVars

NextPure ==
    \/ BitArrayAt
    \/ BeToFe
    \/ FragmentOffset

SpecPure == InitPure /\ [][NextPure]_vars

(***************************************************************************)
(* Properties.                                                             *)
(***************************************************************************)

\* C1: the Printer traversal of every captured frame returns Ok or an error
\* value; no step panics, so the capture loop is never aborted.
C1_TraversalNeverAborts == pc # "aborted" /\ result.tag # "Panic"

\* C2: Ethernet::from_bytes fails with the too-short error exactly when the
\* buffer is shorter than 18 bytes, and succeeds for every longer buffer.
C2_EthernetTooShortBelow18 ==
    pc \notin {"capture", "visit_packet", "segment", "cursor", "rejected"} =>
        /\ (Len(frame) < MIN_TOTAL_SIZE <=>
               (result.tag = "Err" /\ result.msg = "Ethernet data too small"))
        /\ (eth # <<>> => Len(eth) >= MIN_TOTAL_SIZE)

\* C3: IPv4::from_bytes checks length < 20, then version nibble # 4, then
\* header-length nibble outside [5,20], then reserved bit # 0, and fails on
\* the first violation; every constructed view satisfies all four, and a
\* 20-byte buffer with version 4, header length 5, reserved bit 0 is accepted.
C3_Ipv4ViewValid ==
    ip # <<>> =>
        /\ Len(ip) >= 20
        /\ ip[1] \div 16 = 4
        /\ ip[1] % 16 \in 5..20
        /\ ip[2] % 2 = 0

C3_Ipv4CheckOrderStep ==
    (pc = "visit_ethernet" /\ pc' # "aborted"
        /\ eth[13] = 8 /\ eth[14] = 0) =>
        LET d == SubSeq(eth, 15, Len(eth) - 4)
        IN IF Len(d) < 20
           THEN pc' = "report" /\ result' = Err("Ipv4 data too small", 20, Len(d))
           ELSE IF d[1] \div 16 # 4
           THEN pc' = "report" /\ result' = Err("Version must be 4", 0, 0)
           ELSE IF d[1] % 16 < 5
           THEN pc' = "report" /\ result' = Err("Header length too small", 0, 0)
           ELSE IF d[1] % 16 > 20
           THEN pc' = "report" /\ result' = Err("Header length too big", 0, 0)
           ELSE IF d[2] % 2 # 0
           THEN pc' = "report" /\ result' = Err("Reserved flag is not 0", 0, 0)
           ELSE pc' = "visit_ipv4" /\ ip' = d /\ result' = result

C3_Ipv4FromBytesOrder == [](C3_Ipv4ViewValid) /\ [][C3_Ipv4CheckOrderStep]_vars

C3_Witness_MinimalIpv4Accepted ==
    pc = "visit_ipv4" /\ Len(ip) = 20 /\ ip[1] = 69 /\ ip[2] = 0

\* C4: Tcp::from_bytes fails with too-short when the buffer is shorter than
\* 20 bytes, else with header-too-large when data_offset * 4 exceeds the
\* buffer length, else succeeds; so header_size() <= length for every view
\* and raw_payload() is the bytes from header_size() to the end, never
\* failing.
C4_TcpViewValid ==
    /\ tcp # <<>> => Len(tcp) >= 20 /\ (tcp[13] % 16) * 4 <= Len(tcp)
    /\ pc = "visit_raw_payload" =>
           payload = SubSeq(tcp, (tcp[13] % 16) * 4 + 1, Len(tcp))

C4_TcpFromBytesStep ==
    /\ (pc = "visit_ipv4" /\ ip[10] = 6) =>
          LET d == SubSeq(ip, 15, Len(ip) - 4)
          IN IF Len(d) < 20
             THEN pc' = "report" /\ result' = Err("Tcp data too small", 20, Len(d))
             ELSE IF (d[13] % 16) * 4 > Len(d)
             THEN /\ pc' = "report"
                  /\ result' = Err("Tcp header size too big", Len(d), (d[13] % 16) * 4)
             ELSE pc' = "visit_tcp" /\ tcp' = d /\ result' = result
    /\ pc = "visit_tcp" => pc' \in {"visit_tcp", "visit_raw_payload"}

C4_TcpFromBytes == [](C4_TcpViewValid) /\ [][C4_TcpFromBytesStep]_vars

C4_Witness_TcpPayloadSliced ==
    /\ pc = "visit_raw_payload"
    /\ Tcp_header_size(tcp) = 20
    /\ Len(tcp) = 24
    /\ Len(payload) = 4

\* C5: the options of a TCP view are decoded only from the bytes in
\* [20, header_size()): changing the bytes at index >= header_size() does
\* not change the option sequence, and a view whose header_size() is 20
\* yields no options.
ZeroPayload(data) ==
    [i \in 1..Len(data) |-> IF i > Tcp_header_size(data) THEN 0 ELSE data[i]]

C5_OptionsOnlyFromHeader ==
    pc = "cursor" =>
        /\ (Tcp_header_size(tcp) = 20 => yielded = <<>>)
        /\ CollectOptions(Tcp_options(tcp).bytes, 0)
              = CollectOptions(Tcp_options(ZeroPayload(tcp)).bytes, 0)

\* C6: decoding the option bytes 02 04 05 B4 yields exactly one option,
\* MaximumSegmentSize with size 1460, and every MSS option takes its size
\* from the two size bytes that follow the length byte.
C6_MssSizeFromSizeBytes ==
    pc = "cursor" =>
        /\ (optData = <<2, 4, 5, 180>> /\ calls >= 1) =>
               yielded = <<Some("MaximumSegmentSize", 1460, 0)>>
        /\ (lastCall.ret.kind = "MaximumSegmentSize"
                /\ Len(optData) >= lastCall.start + 4) =>
               lastCall.ret.a = optData[lastCall.start + 3] * 256
                                    + optData[lastCall.start + 4]

\* C7: once next() has returned None on a cursor, every later next() on the
\* same cursor returns None; over 01 01 00 ... exactly two NoOperation
\* options are ever produced.
C7_EndIsFinalStep ==
    /\ (pc = "cursor" /\ calls >= 1 /\ lastCall.ret = NoneOpt) =>
           lastCall'.ret = NoneOpt
    /\ (pc = "cursor" /\ Len(optData) >= 3
            /\ SubSeq(optData, 1, 3) = <<1, 1, 0>>) => Len(yielded') <= 2

C7_EndIsFinal == [][C7_EndIsFinalStep]_vars

\* C8: a truncated option is tolerated: when the tag is 2, 3, 5 or 8 and
\* fewer bytes remain than the option requires (2, 1, 8, 8), next() returns
\* None, yields nothing, raises no error and reads no byte outside the
\* option bytes; decoding 02 alone yields the empty sequence.
Required(tag) ==
    CASE tag = 2 -> 2
      [] tag = 3 -> 1
      [] tag = 5 -> 8
      [] tag = 8 -> 8

C8_TruncatedStep ==
    /\ (pc = "cursor" /\ calls' = calls + 1 /\ index < Len(optData)) =>
          LET tag == optData[index + 1]
          IN (tag \in {2, 3, 5, 8}
                 /\ Len(optData) - (index + 1) < Required(tag)) =>
                /\ lastCall'.ret = NoneOpt
                /\ yielded' = yielded
                /\ result' = result
                /\ pc' = "cursor"
    /\ \A i \in lastCall'.reads : i < Len(optData')
    /\ optData' = <<2>> => yielded' = <<>>

C8_TruncatedOptionTolerated == [][C8_TruncatedStep]_vars

C8_Witness_TruncatedSack ==
    /\ pc = "cursor"
    /\ lastCall.tag = 5
    /\ lastCall.ret = NoneOpt
    /\ lastCall.reads # {}
    /\ Len(optData) - (lastCall.start + 1) \in 4..7

\* C9: for every constructed Ethernet view, payload() returns the IPv4
\* variant or the IPv4 construction error exactly when bytes 12..14 are
\* 08 00, and Ok(Invalid) for every other ether-type; an 18-byte all-zero
\* buffer has ether_type() Unknown and payload() Invalid.
C9_EthernetPayloadDispatch ==
    eth # <<>> =>
        LET p == Ethernet_payload(eth)
        IN /\ p.res.tag # "Panic"
           /\ (eth[13] = 8 /\ eth[14] = 0) =>
                 \/ p.res.tag = "Ok" /\ p.variant = "IPv4"
                 \/ p.res = IPv4_from_bytes(SubSeq(eth, 15, Len(eth) - 4))
           /\ ~(eth[13] = 8 /\ eth[14] = 0) =>
                 p.res.tag = "Ok" /\ p.variant = "Invalid"
           /\ eth = [i \in 1..18 |-> 0] =>
                 Ethernet_ether_type(eth) = "Unknown" /\ p.variant = "Invalid"

\* C10: IPv4::payload decodes TCP over raw_payload() exactly when the
\* protocol byte is 6, returning the view or the TCP construction error;
\* for 17 and every other value it returns an unimplemented error, never a
\* view, and that error differs from every too-short and structural error.
TooShortMsgs ==
    {"Ethernet data too small", "Ipv4 data too small", "Tcp data too small"}
StructuralMsgs ==
    {"Version must be 4", "Header length too small", "Header length too big",
     "Reserved flag is not 0", "Tcp header size too big"}
UnimplementedMsgs == {"UDP not implemented", "Unknown protocol"}

C10_Ipv4PayloadStep ==
    pc = "visit_ipv4" =>
        LET raw == SubSeq(ip, 15, Len(ip) - 4)
        IN /\ ip[10] = 6 =>
                \/ pc' = "visit_tcp" /\ tcp' = raw /\ result' = result
                \/ /\ pc' = "report" /\ tcp' = tcp
                   /\ \/ result' = Err("Tcp data too small", 20, Len(raw))
                      \/ /\ Len(raw) >= 20
                         /\ result' = Err("Tcp header size too big", Len(raw),
                                          (raw[13] % 16) * 4)
           /\ ip[10] # 6 =>
                /\ pc' = "report" /\ tcp' = tcp
                /\ result'.tag = "Err"
                /\ result'.msg = IF ip[10] = 17 THEN "UDP not implemented"
                                 ELSE "Unknown protocol"
                /\ result'.msg \notin TooShortMsgs \cup StructuralMsgs

C10_Ipv4PayloadDispatch == [][C10_Ipv4PayloadStep]_vars

C10_Witness_UdpUnimplemented ==
    /\ pc = "report"
    /\ ip # <<>> /\ ip[10] = 17
    /\ result = Err("UDP not implemented", 0, 0)

\* C11: a consumer that does not override the TCP hook gets a 'not
\* implemented' error value: for every frame that decodes down to a valid
\* TCP segment the default traversal returns an error from visit_tcp and
\* does not abort.
C11_DefaultTcpHookReturnsError ==
    (tcp # <<>> /\ pc # "default_visit_tcp") =>
        pc = "default_return" /\ result.tag = "Err"

\* C12: end to end, a buffer made of a 14-byte Ethernet header with
\* ether-type IPv4, a minimal valid 20-byte IPv4 header (0x45, protocol 6)
\* and 4 CRC bytes makes the Ethernet-layer traversal return the too-short
\* failure of TCP construction.  As stated: 34 bytes, ether-type bytes
\* 00 08.  As amended: 38 bytes (14 + 20 + 4), ether-type bytes 08 00.
MinimalIpv4Frame(len, et1, et2) ==
    /\ Len(frame) = len
    /\ frame[13] = et1 /\ frame[14] = et2
    /\ frame[15] = 69 /\ frame[16] = 0
    /\ frame[24] = 6

C12_Original_34Bytes_0008 ==
    (pc = "default_return" /\ MinimalIpv4Frame(34, 0, 8)) =>
        result.tag = "Err" /\ result.msg = "Tcp data too small"

C12_EndToEndTcpTooShort ==
    MinimalIpv4Frame(38, 8, 0) =>
        \/ /\ pc \in {"default_visit_packet", "default_visit_ethernet",
                      "default_visit_ipv4"}
           /\ result = NoResult
        \/ /\ pc = "default_return"
           /\ result = Err("Tcp data too small", 20, 2)

C12_Witness_TcpTooShortReturned ==
    pc = "default_return" /\ MinimalIpv4Frame(38, 8, 0) /\ Len(ip) = 20

\* C13: with the default hooks the error returned by the frame hook is the
\* error of the first failing step, unchanged: the Ethernet construction
\* error, else the IPv4 construction error, else the TCP construction or
\* unsupported-protocol error of IPv4 payload(); and an Invalid Ethernet
\* payload gives a 'not implemented' failure, not a default value.
C13_ReturnedErrorIsFirstFailure ==
    pc = "default_return" =>
        LET e == Ethernet_from_bytes(frame)
        IN IF e.tag = "Err" THEN result = e
           ELSE IF ~(frame[13] = 8 /\ frame[14] = 0)
           THEN result = Err("Ethernet payload is not implemented", 0, 0)
           ELSE LET d == SubSeq(frame, 15, Len(frame) - 4)
                    i == IPv4_from_bytes(d)
                IN IF i.tag = "Err" THEN result = i
                   ELSE IF d[10] # 6
                   THEN result.tag = "Err" /\ result.msg \in UnimplementedMsgs
                   ELSE /\ result = Tcp_from_bytes(SubSeq(d, 15, Len(d) - 4))
                        /\ result.tag = "Err"

C13_InvalidPayloadStep ==
    (pc = "default_visit_ethernet" /\ ~(eth[13] = 8 /\ eth[14] = 0)) =>
        /\ pc' = "default_return"
        /\ result'.tag = "Err"
        /\ result'.msg = "Ethernet payload is not implemented"

C13_DefaultHooksForwardErrors ==
    [](C13_ReturnedErrorIsFirstFailure) /\ [][C13_InvalidPayloadStep]_vars

C13_Witness_TcpErrorForwarded ==
    /\ pc = "default_return"
    /\ ip # <<>>
    /\ result.msg = "Tcp header size too big"

\* C14: the bytes an IPv4 view hands to the TCP decoder start at offset
\* header_length * 4 of the IPv4 buffer and end where total length says;
\* datagrams that differ in header_length hand over different byte ranges.
C14_PayloadStartsAfterHeader ==
    (tcp # <<>> /\ ip # <<>>) =>
        \E end \in 0..Len(ip) :
            tcp = SubSeq(ip, IPv4_header_length(ip) * 4 + 1, end)

\* C15: for every bit range [start,end) of width 1..64 inside the slice,
\* at() returns the selected bits shifted down by start % 8 with every bit
\* above the width masked off; [0,8) of a single byte is that byte; a range
\* wider than 64 bits is the invalid-range error.
C15_BitRangeMasked ==
    pureIn.fn = "at" =>
        LET w == pureIn.end - pureIn.start
        IN /\ (w \in 1..64 /\ pureIn.end <= 8 * Len(pureIn.data)) =>
                 /\ pureOut.tag = "Ok"
                 /\ \A k \in 1..64 :
                       pureOut.seq[k] =
                           IF k <= w
                           THEN Bit(pureIn.data[((pureIn.start + k - 1) \div 8) + 1],
                                    (pureIn.start + k - 1) % 8)
                           ELSE 0
           /\ (pureIn.start = 0 /\ pureIn.end = 8 /\ Len(pureIn.data) = 1) =>
                 /\ pureOut.tag = "Ok"
                 /\ \A k \in 1..64 :
                       pureOut.seq[k] = IF k <= 8 THEN Bit(pureIn.data[1], k - 1)
                                        ELSE 0
           /\ w > 64 => pureOut.tag = "Err"

\* C16: for every size C, even or odd, be_to_fe returns the array reversed
\* end to end: output[i] = input[C-1-i].
C16_BeToFeReverses ==
    pureIn.fn = "be_to_fe" =>
        /\ Len(pureOut.seq) = Len(pureIn.data)
        /\ \A i \in 1..Len(pureIn.data) :
              pureOut.seq[i] = pureIn.data[Len(pureIn.data) + 1 - i]

\* C17: fragment_offset() is a 13-bit quantity in 0..8191, and two headers
\* that differ in any of the 13 fragment-offset bits (the low 5 bits of
\* byte 6, the 8 bits of byte 7) give different results.
C17_FragmentOffset13Bits ==
    pureIn.fn = "fragment_offset" =>
        /\ pureOut.val \in 0..8191
        /\ \A c6 \in FragBytes, c7 \in FragBytes :
              (c6 % 32 # pureIn.data[7] % 32 \/ c7 # pureIn.data[8]) =>
                  IPv4_fragment_offset(FragBuf(c6, c7)) # pureOut.val

\* C18: over option bytes of length n the cursor index stays in 0..n, every
\* unchecked read is at an offset < n, each next() that finds a tag byte
\* advances the index by at least 1 (NoOperation and SackPermitted by 1,
\* MaximumSegmentSize by 3, WindowScale by 2, Sack and Timestamp by 9 when
\* yielded), at most n options are yielded and None is returned within the
\* first n + 1 calls.
C18_CursorInBounds ==
    pc = "cursor" =>
        /\ index \in 0..Len(optData)
        /\ \A i \in lastCall.reads : i \in 0..(Len(optData) - 1)
        /\ Len(yielded) <= Len(optData)
        /\ calls >= Len(optData) + 1 => Len(yielded) < calls

C18_CursorAdvanceStep ==
    (pc = "cursor" /\ calls' = calls + 1 /\ index < Len(optData)) =>
        LET kind == lastCall'.ret.kind
        IN /\ index' >= index + 1
           /\ kind \in {"NoOperation", "SackPermitted"} => index' = index + 1
           /\ kind = "MaximumSegmentSize" => index' = index + 3
           /\ kind = "WindowScale" => index' = index + 2
           /\ kind \in {"Sack", "Timestamp"} => index' = index + 9

C18_CursorInvariant == [](C18_CursorInBounds) /\ [][C18_CursorAdvanceStep]_vars

C18_Witness_SackAdvancesNine ==
    /\ pc = "cursor"
    /\ lastCall.ret.kind = "Sack"
    /\ index = lastCall.start + 9
    /\ index <= Len(optData)

====
